---- MODULE Spec2Model ----
(***************************************************************************)
(* A model of check_changelog.py: the towncrier change log check run on a  *)
(* pull request.  Python strings are sequences of one-character strings,   *)
(* so that str.split, str.startswith, str.lstrip, os.path.dirname and      *)
(* int() are computed on characters, as the interpreter computes them.     *)
(***************************************************************************)
EXTENDS Integers, Sequences, FiniteSets, TLC

VARIABLES
    pc,                 \* position of the running call
    basename,           \* parse_newfragment_basename: argument
    definitions,        \* parse_newfragment_basename: argument
    parts,              \* parse_newfragment_basename: returned tuple
    filenames,          \* validate_cl_candidates: argument
    pr_num,             \* validate_cl_candidates: argument / event['number']
    types,              \* validate_cl_candidates: argument
    idx,                \* position of the for loop that is running
    valid,              \* validate_cl_candidates: local
    out,                \* lines printed by validate_cl_candidates
    pr_files,           \* collect_possible_changelog_files: argument
    config,             \* parse_toml's result, collect's argument
    possible_cl_files,  \* collect_possible_changelog_files: local / result
    default_types,      \* the module global _default_types
    toml_cfg,           \* the parsed pyproject.toml of the base repository
    event_name,         \* os.environ['GITHUB_EVENT_NAME']
    pr_labels,          \* names of event['pull_request']['labels']
    trace,              \* external calls and steps of run(), in order
    exit_status         \* status the process ended with, NoStatus before

vars == <<pc, basename, definitions, parts, filenames, pr_num, types, idx,
          valid, out, pr_files, config, possible_cl_files, default_types,
          toml_cfg, event_name, pr_labels, trace, exit_status>>

-----------------------------------------------------------------------------
(* Bounds of the model.                                                    *)

\* most dot-separated parts of a basename handed to the parser
MaxParts == 4
\* most candidates handed to validate_cl_candidates
MaxCandidates == 3
\* most changed files of a pull request
MaxFiles == 2

-----------------------------------------------------------------------------
(* String literals.                                                        *)

S_empty == << >>
S_dot == <<".">>
S_slash == <<"/">>
S_rst == <<"r","s","t">>
S_dot_rst == <<".","r","s","t">>
S_feature == <<"f","e","a","t","u","r","e">>
S_bugfix == <<"b","u","g","f","i","x">>
S_doc == <<"d","o","c">>
S_removal == <<"r","e","m","o","v","a","l">>
S_misc == <<"m","i","s","c">>
S_x == <<"x">>
S_1 == <<"1">>
S_7 == <<"7">>
S_01 == <<"0","1">>
S_slug == <<"s","l","u","g">>
S_sub == <<"s","u","b">>
S_changes == <<"c","h","a","n","g","e","s">>
S_newsfragments == <<"n","e","w","s","f","r","a","g","m","e","n","t","s">>
S_pull_request == <<"p","u","l","l","_","r","e","q","u","e","s","t">>
S_push == <<"p","u","s","h">>
S_target == <<"_","t","a","r","g","e","t">>
S_skip == <<"s","k","i","p">>
S_other == <<"o","t","h","e","r">>

-----------------------------------------------------------------------------
(* Python built-ins, on sequences of characters.                           *)

Range(s) == {s[k] : k \in 1..Len(s)}

\* str.startswith
StartsWith(s, p) == Len(p) <= Len(s) /\ SubSeq(s, 1, Len(p)) = p

\* str.endswith
EndsWith(s, p) ==
    Len(p) <= Len(s) /\ SubSeq(s, Len(s) - Len(p) + 1, Len(s)) = p

\* str.lstrip(chars): drops leading characters that occur in chars
RECURSIVE LStrip(_, _)
LStrip(s, chars) ==
    IF s # << >> /\ Head(s) \in Range(chars) THEN LStrip(Tail(s), chars) ELSE s

\* str.rstrip(chars)
RECURSIVE RStrip(_, _)
RStrip(s, chars) ==
    IF s # << >> /\ s[Len(s)] \in Range(chars)
    THEN RStrip(SubSeq(s, 1, Len(s) - 1), chars) ELSE s

\* str.split(sep) for a one-character separator: a sequence of strings
RECURSIVE Split(_, _)
Split(s, sep) ==
    IF \E k \in 1..Len(s) : s[k] = sep
    THEN LET k == CHOOSE j \in 1..Len(s) :
                      s[j] = sep /\ \A m \in 1..(j - 1) : s[m] # sep
         IN <<SubSeq(s, 1, k - 1)>> \o Split(SubSeq(s, k + 1, Len(s)), sep)
    ELSE <<s>>

\* sep.join(list)
RECURSIVE Join(_, _)
Join(list, sep) ==
    IF list = << >> THEN << >>
    ELSE IF Len(list) = 1 THEN list[1]
    ELSE list[1] \o sep \o Join(Tail(list), sep)

Digits == {"0","1","2","3","4","5","6","7","8","9"}

DigitVal(c) ==
    CASE c = "0" -> 0 [] c = "1" -> 1 [] c = "2" -> 2 [] c = "3" -> 3
      [] c = "4" -> 4 [] c = "5" -> 5 [] c = "6" -> 6 [] c = "7" -> 7
      [] c = "8" -> 8 [] c = "9" -> 9

DigitChar(d) == <<"0","1","2","3","4","5","6","7","8","9">>[d + 1]

\* str.isdigit: non-empty and every character a digit
IsDigit(s) == s # << >> /\ \A k \in 1..Len(s) : s[k] \in Digits

\* int(s) raises ValueError unless s is an optional sign followed by digits
\* (the white space and the underscores int() also takes are not characters
\* of the model)
IntParses(s) ==
    IF s # << >> /\ Head(s) \in {"+", "-"} THEN IsDigit(Tail(s)) ELSE IsDigit(s)

RECURSIVE NatValue(_)
NatValue(s) ==
    IF s = << >> THEN 0
    ELSE 10 * NatValue(SubSeq(s, 1, Len(s) - 1)) + DigitVal(s[Len(s)])

\* int(s), where IntParses(s)
IntValue(s) ==
    IF Head(s) = "-" THEN 0 - NatValue(Tail(s))
    ELSE IF Head(s) = "+" THEN NatValue(Tail(s))
    ELSE NatValue(s)

RECURSIVE NatStr(_)
NatStr(n) ==
    IF n < 10 THEN <<DigitChar(n)>> ELSE NatStr(n \div 10) \o <<DigitChar(n % 10)>>

\* str(i)
IntStr(i) == IF i < 0 THEN <<"-">> \o NatStr(0 - i) ELSE NatStr(i)

\* os.path.dirname (posixpath)
Dirname(p) ==
    LET slashes == {k \in 1..Len(p) : p[k] = "/"}
        i == IF slashes = {} THEN 0
             ELSE CHOOSE k \in slashes : \A m \in slashes : m <= k
        head == SubSeq(p, 1, i)
    IN IF head # << >> /\ \E k \in 1..Len(head) : head[k] # "/"
       THEN RStrip(head, S_slash) ELSE head

\* os.path.join (posixpath) of three components
PathJoin2(a, b) ==
    IF StartsWith(b, S_slash) THEN b
    ELSE IF a = << >> \/ EndsWith(a, S_slash) THEN a \o b
    ELSE a \o S_slash \o b

PathJoin(a, b, c) == PathJoin2(PathJoin2(a, b), c)

-----------------------------------------------------------------------------
(* Python values of mixed type: None, str and int.                         *)

None == [tag |-> "None"]
PyStr(s) == [tag |-> "str", val |-> s]
PyInt(i) == [tag |-> "int", val |-> i]

NoStatus == "running"

-----------------------------------------------------------------------------
(* validate_cl_candidates.strip_if_integer_string                          *)

strip_if_integer_string(s) == IF IntParses(s) THEN IntStr(IntValue(s)) ELSE s

(* validate_cl_candidates.parse_newfragment_basename                       *)

invalid == <<None, None, None>>

\* positions the for loop of the parser visits: range(1, len(_parts))
ScanRange(_parts) == 2..Len(_parts)

\* CounterAt reading the counter only when it is the last part of the name
CounterAt_LastOnly(_parts, i) ==
    IF Len(_parts) = i + 1 /\ IsDigit(_parts[i + 1]) THEN IntValue(_parts[i + 1])
    ELSE 0

\* the counter: the part after the category when it exists and is all digits
CounterAt(_parts, i) ==
    IF Len(_parts) > i /\ IsDigit(_parts[i + 1]) THEN IntValue(_parts[i + 1])
    ELSE 0

\* FirstMatch without the return inside the loop: the last match wins
FirstMatch_LastWins(_parts, defs) ==
    LET hits == {i \in ScanRange(_parts) : _parts[i] \in Range(defs)}
    IN IF hits = {} THEN 0 ELSE CHOOSE i \in hits : \A j \in hits : j <= i

\* the position the loop returns at (1-based): the first part that is in
\* definitions; 0 when the loop runs to its else branch
FirstMatch(_parts, defs) ==
    LET hits == {i \in ScanRange(_parts) : _parts[i] \in Range(defs)}
    IN IF hits = {} THEN 0 ELSE CHOOSE i \in hits : \A j \in hits : i <= j

parse_newfragment_basename(name, defs) ==
    LET _parts == Split(name, ".")
    IN IF Len(_parts) = 1 THEN invalid
       ELSE IF Len(_parts) = 2
       THEN IF _parts[2] \in Range(defs)
            THEN <<PyStr(strip_if_integer_string(_parts[1])),
                   PyStr(_parts[2]), PyInt(0)>>
            ELSE invalid
       ELSE LET i == FirstMatch(_parts, defs)
            IN IF i = 0 THEN invalid
               ELSE <<PyStr(strip_if_integer_string(_parts[i - 1])),
                      PyStr(_parts[i]), PyInt(CounterAt(_parts, i))>>

-----------------------------------------------------------------------------
(* Dictionaries.  A dict is a function on its keys; an OrderedDict is the  *)
(* sequence of its <<key, value>> items in insertion order.                *)

Has(d, k) == k \in DOMAIN d

\* dict.get(k, default)
Get(d, k, default) == IF Has(d, k) THEN d[k] ELSE default

Keys(od) == [k \in 1..Len(od) |-> od[k][1]]

Values(od) == [k \in 1..Len(od) |-> od[k][2]]

\* od[key] = value: an existing key keeps its place and takes the new value
SetItem(od, key, value) ==
    IF \E k \in 1..Len(od) : od[k][1] = key
    THEN [k \in 1..Len(od) |-> IF od[k][1] = key THEN <<key, value>> ELSE od[k]]
    ELSE Append(od, <<key, value>>)

\* the module global, as the module sets it when it is imported
_default_types ==
    << <<S_feature, [name |-> "Features", showcontent |-> TRUE]>>,
       <<S_bugfix, [name |-> "Bugfixes", showcontent |-> TRUE]>>,
       <<S_doc, [name |-> "Improved Documentation", showcontent |-> TRUE]>>,
       <<S_removal, [name |-> "Deprecations and Removals", showcontent |-> TRUE]>>,
       <<S_misc, [name |-> "Misc", showcontent |-> FALSE]>> >>

-----------------------------------------------------------------------------
(* parse_toml                                                              *)

Raised(what) == [raised |-> TRUE, error |-> what]

\* a call that returns: its value, and the global table as the call leaves it
Returned(value, globals) ==
    [raised |-> FALSE, value |-> value, default_types |-> globals]

\* config = config["tool"]["towncrier"] succeeds
HasTowncrierSection(cfg) == Has(cfg, "tool") /\ Has(cfg["tool"], "towncrier")

\* the loop over config["section"]
RECURSIVE SectionsOf(_, _)
SectionsOf(list, sections) ==
    IF list = << >> THEN sections
    ELSE SectionsOf(Tail(list),
                    SetItem(sections, Get(Head(list), "name", S_empty),
                            Head(list)["path"]))

\* the loop over config["type"]
RECURSIVE TypesOf(_, _)
TypesOf(list, acc) ==
    IF list = << >> THEN acc
    ELSE TypesOf(Tail(list),
                 SetItem(acc, Head(list)["directory"],
                         [name |-> Head(list)["name"],
                          showcontent |-> Head(list)["showcontent"]]))

\* the table parse_toml returns as "sections"
SectionsTable(c) ==
    IF Has(c, "section") THEN SectionsOf(c["section"], << >>)
    ELSE << <<S_empty, S_empty>> >>

\* TypesTable with the entries added to the built-in table
TypesTable_Merged(c, globals) ==
    IF Has(c, "type") THEN TypesOf(c["type"], globals) ELSE globals

\* the table parse_toml returns as "types": a fresh one filled from the
\* entries, or the global table itself
TypesTable(c, globals) ==
    IF Has(c, "type") THEN TypesOf(c["type"], << >>) ELSE globals

\* the global table after the call: parse_toml never writes to it
GlobalsAfter(c, globals) == globals

\* x["path"], x["directory"], x["name"], x["showcontent"] of an entry that
\* lacks the key raise KeyError out of the loops
EntryKeyMissing(c) ==
    \/ /\ Has(c, "section")
       /\ \E k \in 1..Len(c["section"]) : ~Has(c["section"][k], "path")
    \/ /\ Has(c, "type")
       /\ \E k \in 1..Len(c["type"]) :
              ~({"directory", "name", "showcontent"} \subseteq DOMAIN c["type"][k])

parse_toml(cfg, globals) ==
    IF ~HasTowncrierSection(cfg)
    THEN Raised("KeyError: No [tool.towncrier] section found in the pyproject.toml")
    ELSE LET c == cfg["tool"]["towncrier"]
         IN IF EntryKeyMissing(c) THEN Raised("KeyError")
            ELSE Returned([package |-> Get(c, "package", S_empty),
                           package_dir |-> Get(c, "package_dir", S_dot),
                           directory |-> Get(c, "directory", None),
                           sections |-> SectionsTable(c),
                           types |-> TypesTable(c, globals)],
                          GlobalsAfter(c, globals))

-----------------------------------------------------------------------------
(* collect_possible_changelog_files: one pass of the loop over pr_files    *)

section_dirs(cfg) == Values(cfg.sections)

cl_base_dir(cfg) ==
    IF cfg.directory # None THEN cfg.directory.val
    ELSE PathJoin(cfg.package_dir, cfg.package, S_newsfragments)

\* the file is passed over by one of the two `continue`s
Skipped(filename, cfg) ==
    ~EndsWith(filename, S_dot_rst) \/ ~StartsWith(filename, cl_base_dir(cfg))

\* filename = filename.lstrip(cl_base_dir).lstrip("/")
StripBase(filename, cfg) == LStrip(LStrip(filename, cl_base_dir(cfg)), S_slash)

\* one pass of the loop over section_dirs: the stripped string is computed
\* as an expression statement and filename is not assigned
SectionPass(filename, sdir) ==
    LET stripped == LStrip(LStrip(filename, sdir), S_slash)
    IN IF StartsWith(filename, sdir) THEN filename ELSE filename

RECURSIVE AfterSections(_, _)
AfterSections(filename, sdirs) ==
    IF sdirs = << >> THEN filename
    ELSE AfterSections(SectionPass(filename, Head(sdirs)), Tail(sdirs))

\* the value of filename at the `if filename != ""` test
Remainder(filename, cfg) ==
    AfterSections(StripBase(filename, cfg), section_dirs(cfg))

-----------------------------------------------------------------------------
(* Inputs.                                                                 *)

\* sequences over S of length lo..hi
SeqsOf(S, lo, hi) == UNION {[1..n -> S] : n \in lo..hi}

\* dot-separated parts basenames are built from
PartPool == {S_empty, S_1, S_01, S_7, S_x, S_feature, S_bugfix, S_rst}

Basenames == {Join(ps, S_dot) : ps \in SeqsOf(PartPool, 1, MaxParts)}

\* lists of category identifiers: list(config["types"]) of the built-in table
\* and of a table with the one custom type "x"
TypeLists == {Keys(_default_types), <<S_x>>}

PrNumbers == {1, 7}

\* the values the variables of a call hold while that call has not run
IdleParse == basename = << >> /\ definitions = << >> /\ parts = invalid

IdleValidate ==
    /\ filenames = << >> /\ types = << >> /\ valid = TRUE /\ out = << >>

IdleCollect == pr_files = << >> /\ config = None /\ possible_cl_files = << >>

IdleRun ==
    /\ toml_cfg = None /\ event_name = << >> /\ pr_labels = << >>
    /\ trace = << >> /\ exit_status = NoStatus

-----------------------------------------------------------------------------
(* parse_newfragment_basename, called on its own.                          *)

InitParse ==
    /\ pc = "parse"
    /\ basename \in Basenames
    /\ definitions \in TypeLists
    /\ parts = invalid
    /\ pr_num = 0 /\ idx = 0 /\ default_types = _default_types
    /\ IdleValidate /\ IdleCollect /\ IdleRun

ParseBasename ==
    /\ pc = "parse"
    /\ parts' = parse_newfragment_basename(basename, definitions)
    /\ pc' = "parsed"
    /\ UNCHANGED <<basename, definitions, filenames, pr_num, types, idx, valid,
                   out, pr_files, config, possible_cl_files, default_types,
                   toml_cfg, event_name, pr_labels, trace, exit_status>>

NextParse == ParseBasename

SpecParse == InitParse /\ [][NextParse]_vars

-----------------------------------------------------------------------------
(* Properties of parse_newfragment_basename.                               *)

\* the parts of PartPool that are written with digits only, and their values
DigitParts == {S_1, S_01, S_7}
DigitPartValue(d) == IF d = S_7 THEN 7 ELSE 1

\* the canonical decimal form of a part of PartPool: 01 is 1, the others
\* either are canonical or are no integers
NormalForm(t) == IF t = S_01 THEN S_1 ELSE t

\* the dot-separated parts of the basename being parsed
DotParts == Split(basename, ".")

\* positions 1.. (0-based, as in the code) of the parts that are recognized
\* category identifiers
CategoryPositions ==
    {i \in 1..(Len(DotParts) - 1) : DotParts[i + 1] \in Range(definitions)}

\* C7 as stated: <ticket>.<category>.<digits>.rst gives (ticket, category,
\* int(digits)), the ticket as written in the name, and a segment after the
\* category that is not all digits gives counter 0.
C7_AsStated ==
    pc = "parsed" =>
        /\ \A t \in PartPool, c \in Range(definitions), d \in DigitParts :
               basename = Join(<<t, c, d, S_rst>>, S_dot)
                   => parts = <<PyStr(t), PyStr(c), PyInt(DigitPartValue(d))>>
        /\ \A t \in PartPool, c \in Range(definitions) :
               basename = Join(<<t, c, S_rst>>, S_dot) => parts[3] = PyInt(0)

\* C7 amended: for a dot-free ticket, <ticket>.<category>.<digits>.rst gives
\* (the ticket in canonical decimal form when it is an integer and unchanged
\* otherwise, category, int(digits)); when the segment after the category is
\* not all digits, as in <ticket>.<category>.rst, the counter is 0.
C7_Counter ==
    pc = "parsed" =>
        /\ \A t \in PartPool, c \in Range(definitions), d \in DigitParts :
               basename = Join(<<t, c, d, S_rst>>, S_dot)
                   => parts = <<PyStr(NormalForm(t)), PyStr(c),
                                PyInt(DigitPartValue(d))>>
        /\ \A t \in PartPool, c \in Range(definitions),
                 e \in PartPool \ DigitParts :
               basename \in {Join(<<t, c, e>>, S_dot), Join(<<t, c, e, S_rst>>, S_dot)}
                   => parts = <<PyStr(NormalForm(t)), PyStr(c), PyInt(0)>>

C7_Witness ==
    /\ pc = "parsed"
    /\ basename = Join(<<S_01, S_feature, S_7, S_rst>>, S_dot)
    /\ parts = <<PyStr(S_1), PyStr(S_feature), PyInt(7)>>

\* C9: the result is unparseable exactly when no part at position 1 or later
\* is a recognized category; otherwise the category is the part at the
\* smallest such position i and the ticket is the normalized part at i-1.
C9_FirstMatch ==
    pc = "parsed" =>
        /\ parts = invalid <=> CategoryPositions = {}
        /\ CategoryPositions # {} =>
               LET i == CHOOSE k \in CategoryPositions :
                            \A m \in CategoryPositions : k <= m
               IN /\ parts[2] = PyStr(DotParts[i + 1])
                  /\ parts[1] = PyStr(NormalForm(DotParts[i]))

\* a name with a category at position 0 and two later ones: the first of
\* the later ones is taken and the part before it is the ticket
C9_Witness ==
    /\ pc = "parsed"
    /\ basename = Join(<<S_feature, S_01, S_bugfix, S_feature>>, S_dot)
    /\ parts = <<PyStr(S_1), PyStr(S_bugfix), PyInt(0)>>

-----------------------------------------------------------------------------
(* validate_cl_candidates: the empty test, one action per way through the  *)
(* body of the loop over filenames, and the return.                        *)

S_1_feature_rst == Join(<<S_1, S_feature, S_rst>>, S_dot)
S_7_feature_rst == Join(<<S_7, S_feature, S_rst>>, S_dot)
S_01_bugfix_rst == Join(<<S_01, S_bugfix, S_rst>>, S_dot)
S_1_x_rst == Join(<<S_1, S_x, S_rst>>, S_dot)
S_slug_feature_rst == Join(<<S_slug, S_feature, S_rst>>, S_dot)
S_dot_feature_rst == Join(<<S_empty, S_feature, S_rst>>, S_dot)
S_sub_1_feature_rst == S_sub \o S_slash \o S_1_feature_rst
S_README_rst == <<"R","E","A","D","M","E">> \o S_dot_rst

CandidatePool ==
    {S_1_feature_rst, S_7_feature_rst, S_01_bugfix_rst, S_1_x_rst,
     S_slug_feature_rst, S_dot_feature_rst, S_sub_1_feature_rst, S_README_rst}

InitValidate ==
    /\ pc = "validate"
    /\ filenames \in SeqsOf(CandidatePool, 0, MaxCandidates)
    /\ pr_num \in PrNumbers
    /\ types \in TypeLists
    /\ idx = 0 /\ valid = TRUE /\ out = << >>
    /\ default_types = _default_types
    /\ IdleParse /\ IdleCollect /\ IdleRun

\* os.path.dirname(filename) != ""
InSubdir(filename) == Dirname(filename) # S_empty

\* int(parts[0]) raises ValueError
TicketRaises(parsed) ==
    IF parsed = invalid THEN FALSE ELSE ~IntParses(parsed[1].val)

\* TicketDiffers without the comparison: the PR number is not verified
TicketDiffers_Unverified(parsed, num) == FALSE

\* int(parts[0]) != pr_num, where int(parts[0]) returns
TicketDiffers(parsed, num) == IntValue(parsed[1].val) # num

\* parts == (None, None, None) or int(parts[0]) != pr_num
Rejected(parsed, num) ==
    IF parsed = invalid THEN TRUE
    ELSE ~TicketRaises(parsed) /\ TicketDiffers(parsed, num)

\* the accepting pass with "valid = True" in it: the last candidate decides
ValidAfterAccept_LastWins(v) == TRUE

\* what the accepting pass of the loop leaves in valid: it does not assign
ValidAfterAccept(v) == v

ValidateUnchanged ==
    UNCHANGED <<basename, definitions, filenames, pr_num, types, pr_files,
                config, possible_cl_files, default_types, toml_cfg,
                event_name, pr_labels, exit_status>>

\* lines 148-154
ValidateStart ==
    /\ pc = "validate"
    /\ valid' = (Len(filenames) # 0)
    /\ out' = IF Len(filenames) = 0 THEN <<[kind |-> "NO_FILES"]>> ELSE << >>
    /\ idx' = 1
    /\ pc' = "validate_loop"
    /\ UNCHANGED <<parts, trace>>
    /\ ValidateUnchanged

\* lines 157-163
ValidateSubdir ==
    /\ pc = "validate_loop" /\ idx <= Len(filenames)
    /\ InSubdir(filenames[idx])
    /\ valid' = FALSE
    /\ out' = Append(out, [kind |-> "INVALID", file |-> filenames[idx],
                           why |-> "sub-directory"])
    /\ idx' = idx + 1
    /\ UNCHANGED <<pc, parts, trace>>
    /\ ValidateUnchanged

\* lines 165-168, int() raising ValueError out of the function
ValidateRaise ==
    /\ pc = "validate_loop" /\ idx <= Len(filenames)
    /\ ~InSubdir(filenames[idx])
    /\ TicketRaises(parse_newfragment_basename(filenames[idx], types))
    /\ parts' = parse_newfragment_basename(filenames[idx], types)
    /\ out' = Append(out, [kind |-> "PARSED", file |-> filenames[idx]])
    /\ pc' = "raised"
    /\ UNCHANGED <<idx, valid, trace>>
    /\ ValidateUnchanged

\* lines 165-174
ValidateReject ==
    /\ pc = "validate_loop" /\ idx <= Len(filenames)
    /\ ~InSubdir(filenames[idx])
    /\ Rejected(parse_newfragment_basename(filenames[idx], types), pr_num)
    /\ parts' = parse_newfragment_basename(filenames[idx], types)
    /\ valid' = FALSE
    /\ out' = out \o <<[kind |-> "PARSED", file |-> filenames[idx]],
                        [kind |-> "INVALID", file |-> filenames[idx],
                         why |-> "PR number or type"]>>
    /\ idx' = idx + 1
    /\ UNCHANGED <<pc, trace>>
    /\ ValidateUnchanged

\* lines 165-168, 176
ValidateAccept ==
    /\ pc = "validate_loop" /\ idx <= Len(filenames)
    /\ ~InSubdir(filenames[idx])
    /\ ~TicketRaises(parse_newfragment_basename(filenames[idx], types))
    /\ ~Rejected(parse_newfragment_basename(filenames[idx], types), pr_num)
    /\ parts' = parse_newfragment_basename(filenames[idx], types)
    /\ valid' = ValidAfterAccept(valid)
    /\ out' = out \o <<[kind |-> "PARSED", file |-> filenames[idx]],
                        [kind |-> "VALID", file |-> filenames[idx]]>>
    /\ idx' = idx + 1
    /\ UNCHANGED <<pc, trace>>
    /\ ValidateUnchanged

\* lines 178-186
ValidateReturn ==
    /\ pc = "validate_loop" /\ idx > Len(filenames)
    /\ out' = IF valid THEN out ELSE Append(out, [kind |-> "SOME_INVALID"])
    /\ trace' = Append(trace, "validate_return")
    /\ pc' = "validated"
    /\ UNCHANGED <<idx, valid, parts>>
    /\ ValidateUnchanged

NextValidate ==
    \/ ValidateStart
    \/ ValidateSubdir
    \/ ValidateRaise
    \/ ValidateReject
    \/ ValidateAccept
    \/ ValidateReturn

SpecValidate == InitValidate /\ [][NextValidate]_vars

-----------------------------------------------------------------------------
(* Properties of validate_cl_candidates.                                   *)

\* the VALID and INVALID lines printed so far: the k-th is for filenames[k]
Verdicts == SelectSeq(out, LAMBDA l : l.kind \in {"VALID", "INVALID"})

\* C1: the call returns true only if the list is non-empty and every
\* candidate got a VALID line (so an empty list, and a list with a rejected
\* candidate at any position, give false), and valid never goes back from
\* false to true while the list is scanned.
C1_RejectAny ==
    /\ [](pc = "validated" =>
             /\ Len(Verdicts) = Len(filenames)
             /\ valid <=> /\ filenames # << >>
                           /\ \A k \in 1..Len(filenames) :
                                  /\ Verdicts[k].file = filenames[k]
                                  /\ Verdicts[k].kind = "VALID")
    /\ [][(pc = "validate_loop" /\ ~valid) => ~valid']_vars

\* an accepted candidate after a rejected one, and the call returned false
C1_Witness ==
    /\ pc = "validated" /\ ~valid
    /\ Len(filenames) = 3
    /\ Verdicts[1].kind = "VALID" /\ Verdicts[2].kind = "INVALID"
    /\ Verdicts[3].kind = "VALID"

\* the pool's names of the form <n>.<category>.rst, n a decimal integer
IsNumbered(f, n, c) == f = Join(<<n, c, S_rst>>, S_dot)

\* C2: a bare <n>.<category>.rst with a recognized category is accepted when
\* n is the PR number and rejected when it is not; a candidate with a
\* directory component is rejected.
C2_PerCandidate ==
    \A k \in 1..Len(Verdicts) :
        /\ Verdicts[k].file = filenames[k]
        /\ \A n \in DigitParts, c \in Range(types) :
               IsNumbered(filenames[k], n, c) =>
                   (Verdicts[k].kind = "VALID" <=> DigitPartValue(n) = pr_num)
        /\ StartsWith(filenames[k], S_sub \o S_slash) => Verdicts[k].kind = "INVALID"

\* 01.bugfix.rst accepted for PR 1, 7.feature.rst and sub/1.feature.rst
\* rejected
C2_Witness ==
    /\ pc = "validated" /\ pr_num = 1
    /\ filenames = <<S_01_bugfix_rst, S_7_feature_rst, S_sub_1_feature_rst>>
    /\ Verdicts[1].kind = "VALID" /\ Verdicts[2].kind = "INVALID"
    /\ Verdicts[3].kind = "INVALID"

\* C3: every candidate that fails validation is handled as a rejection: the
\* call never ends with an uncaught error, and once the scan is over each
\* candidate has its VALID or INVALID line.
C3_NoUncaughtError ==
    /\ pc # "raised"
    /\ pc = "validated" => Len(Verdicts) = Len(filenames)

-----------------------------------------------------------------------------
(* pyproject.toml documents.                                               *)

EmptyDict == [k \in {} |-> None]

\* an optional key: Absent, or Some(its value)
Absent == << >>
Some(v) == <<v>>
Optional(S) == {Absent} \cup {Some(v) : v \in S}

\* the one-key dict, or the empty dict when the key is absent
Opt(k, o) == IF o = Absent THEN EmptyDict ELSE k :> o[1]

\* [[tool.towncrier.section]] lists; the last entry has no "path"
SectionLists ==
    { << >>,
      <<[name |-> S_sub, path |-> S_sub]>>,
      <<[path |-> S_sub]>>,
      <<[name |-> S_sub, path |-> S_sub], [name |-> S_x, path |-> S_x]>>,
      <<[name |-> S_sub]>> }

Type(directory, name) ==
    [directory |-> directory, name |-> name, showcontent |-> TRUE]

\* [[tool.towncrier.type]] lists; the last entry has no "name"
TypeEntryLists ==
    { <<Type(S_x, "X")>>,
      <<Type(S_x, "X"), Type(S_feature, "New")>>,
      <<Type(S_x, "X"), Type(S_x, "Again")>>,
      <<[directory |-> S_x, showcontent |-> TRUE]>> }

\* a [tool.towncrier] table of optional keys
Towncrier(directory, section, type, package) ==
    Opt("directory", directory) @@ Opt("section", section)
        @@ Opt("type", type) @@ Opt("package", package)

TowncrierTables ==
    { Towncrier(d, s, t, p) :
        d \in Optional({PyStr(S_changes)}), s \in Optional(SectionLists),
        t \in Optional(TypeEntryLists), p \in Optional({S_x}) }

\* a pyproject.toml with the given [tool.<bot>.towncrier_changelog] and
\* [tool.towncrier] tables
bot_username == "astropy-bot"

Toml(bot, towncrier) ==
    "tool" :> (Opt(bot_username, bot) @@ Opt("towncrier", towncrier))

TomlPool ==
    {EmptyDict} \cup {Toml(Absent, t) : t \in Optional(TowncrierTables)}

-----------------------------------------------------------------------------
(* parse_toml as a step, called on its own and from run().                 *)

InitToml ==
    /\ pc = "parse_toml"
    /\ toml_cfg \in TomlPool
    /\ event_name = << >> /\ pr_labels = << >>
    /\ trace = << >> /\ exit_status = NoStatus
    /\ pr_num = 0 /\ idx = 0 /\ default_types = _default_types
    /\ IdleParse /\ IdleValidate /\ IdleCollect

\* line 240, parse_toml returning
ParseTomlReturn ==
    /\ pc = "parse_toml"
    /\ ~parse_toml(toml_cfg, default_types).raised
    /\ config' = parse_toml(toml_cfg, default_types).value
    /\ default_types' = parse_toml(toml_cfg, default_types).default_types
    /\ trace' = Append(trace, "parse_toml")
    /\ pc' = "files"
    /\ UNCHANGED <<basename, definitions, parts, filenames, pr_num, types, idx,
                   valid, out, pr_files, possible_cl_files, toml_cfg,
                   event_name, pr_labels, exit_status>>

\* line 240, parse_toml raising KeyError
ParseTomlRaise ==
    /\ pc = "parse_toml"
    /\ parse_toml(toml_cfg, default_types).raised
    /\ trace' = Append(trace, "parse_toml")
    /\ pc' = "raised"
    /\ UNCHANGED <<basename, definitions, parts, filenames, pr_num, types, idx,
                   valid, out, pr_files, config, possible_cl_files,
                   default_types, toml_cfg, event_name, pr_labels, exit_status>>

NextToml == ParseTomlReturn \/ ParseTomlRaise

SpecToml == InitToml /\ [][NextToml]_vars

\* the [tool.towncrier] table of the document that was parsed
TowncrierTable == toml_cfg["tool"]["towncrier"]

BuiltinFive == {S_feature, S_bugfix, S_doc, S_removal, S_misc}

DefaultSections == << <<S_empty, S_empty>> >>

\* the recognized category identifiers of the parsed configuration
Recognized == Range(Keys(config.types))

\* what C8 says of the categories and of the built-in table
C8_Categories ==
    /\ ~Has(TowncrierTable, "type") => Recognized = BuiltinFive
    /\ Has(TowncrierTable, "type") =>
           Recognized = {TowncrierTable["type"][k]["directory"] :
                             k \in 1..Len(TowncrierTable["type"])}
    /\ default_types = _default_types

\* C8 as stated: without a `type` key the categories are the built-in five
\* and the sections mapping is the single entry "" -> ""; with `type`
\* entries the categories are their `directory` values only; the built-in
\* table is left as it was.
C8_AsStated ==
    pc = "files" =>
        /\ C8_Categories
        /\ ~Has(TowncrierTable, "type") => config.sections = DefaultSections

\* C8 amended: as stated, but the sections mapping is the single entry
\* "" -> "" for the configurations without a `section` key (whether or not
\* they have a `type` key).
C8_Defaults ==
    pc = "files" =>
        /\ C8_Categories
        /\ ~Has(TowncrierTable, "section") => config.sections = DefaultSections

\* a table with a custom type that repeats a built-in name, and no section
C8_Witness ==
    /\ pc = "files"
    /\ TowncrierTable =
           Towncrier(Absent, Absent,
                     Some(<<Type(S_x, "X"), Type(S_feature, "New")>>), Absent)
    /\ Recognized = {S_x, S_feature}
    /\ config.sections = DefaultSections

-----------------------------------------------------------------------------
(* collect_possible_changelog_files: one action per way through the body   *)
(* of the loop over pr_files, and the return.                              *)

S_changes_slash == S_changes \o S_slash
S_dot_newsfragments_slash == S_dot \o S_slash \o S_newsfragments \o S_slash

\* paths of changed files as the hosting API gives them
RepoFilePool ==
    { S_changes_slash \o S_1_feature_rst,
      S_changes_slash \o S_sub_1_feature_rst,
      S_changes \o <<"2">> \o S_slash \o S_1_feature_rst,
      S_changes_slash \o S_slug_feature_rst,
      S_changes_slash \o Join(<<S_1, S_feature>>, S_dot),
      S_README_rst }

\* and two paths written from the current directory, for the default
\* base directory ./newsfragments
FilePool ==
    RepoFilePool \cup
        { S_dot_newsfragments_slash \o S_1_feature_rst,
          S_dot_newsfragments_slash \o <<"n","e","w","s">> \o S_dot_rst }

SubSection == <<[name |-> S_sub, path |-> S_sub]>>

\* configurations as parse_toml returns them: a configured directory, the
\* same with a subsection, and the defaults
CollectConfigs ==
    { parse_toml(Toml(Absent, Some(t)), _default_types).value :
        t \in { Towncrier(Some(PyStr(S_changes)), Absent, Absent, Absent),
                Towncrier(Some(PyStr(S_changes)), Some(SubSection), Absent, Absent),
                Towncrier(Absent, Absent, Absent, Absent) } }

InitCollect ==
    /\ pc = "collect"
    /\ pr_files \in SeqsOf(FilePool, 0, MaxFiles)
    /\ config \in CollectConfigs
    /\ possible_cl_files = << >>
    /\ idx = 1
    /\ pr_num = 0 /\ default_types = _default_types
    /\ IdleParse /\ IdleValidate /\ IdleRun

CollectUnchanged ==
    UNCHANGED <<pc, basename, definitions, parts, filenames, pr_num, types,
                valid, out, pr_files, config, default_types, toml_cfg,
                event_name, pr_labels, trace, exit_status>>

\* lines 78-83: one of the two `continue`s
CollectSkip ==
    /\ pc = "collect" /\ idx <= Len(pr_files)
    /\ Skipped(pr_files[idx], config)
    /\ idx' = idx + 1
    /\ UNCHANGED possible_cl_files
    /\ CollectUnchanged

\* lines 78-93: the file is in the base directory; what is left of its name
\* is appended unless it is empty
CollectKeep ==
    /\ pc = "collect" /\ idx <= Len(pr_files)
    /\ ~Skipped(pr_files[idx], config)
    /\ possible_cl_files' =
           IF Remainder(pr_files[idx], config) # S_empty
           THEN Append(possible_cl_files, Remainder(pr_files[idx], config))
           ELSE possible_cl_files
    /\ idx' = idx + 1
    /\ CollectUnchanged

\* line 95
CollectReturn ==
    /\ pc = "collect" /\ idx > Len(pr_files)
    /\ pc' = "collected"
    /\ UNCHANGED <<basename, definitions, parts, filenames, pr_num, types, idx,
                   valid, out, pr_files, config, possible_cl_files,
                   default_types, toml_cfg, event_name, pr_labels, trace,
                   exit_status>>

NextCollect == CollectSkip \/ CollectKeep \/ CollectReturn

SpecCollect == InitCollect /\ [][NextCollect]_vars

-----------------------------------------------------------------------------
(* Properties of collect_possible_changelog_files.                         *)

\* bare fragment names of the pool
BareNames == {S_1_feature_rst, S_slug_feature_rst}

\* C4: for a changed file <base directory>/<subsection path>/<name>, with a
\* non-empty configured subsection path, the collected candidate is the bare
\* <name>, which passes the directory rule of validation.
C4_SubsectionStripped ==
    pc = "collected" =>
        \A k \in 1..Len(pr_files), name \in BareNames :
            \A j \in 1..Len(section_dirs(config)) :
                LET sdir == section_dirs(config)[j]
                IN (sdir # S_empty /\ pr_files[k] =
                        cl_base_dir(config) \o S_slash \o sdir \o S_slash \o name)
                   => /\ name \in Range(possible_cl_files)
                      /\ \A c \in Range(possible_cl_files) : Dirname(c) = S_empty

\* the file lies inside the base directory and is an .rst file
InBaseDir(f) ==
    /\ EndsWith(f, S_dot_rst)
    /\ StartsWith(f, cl_base_dir(config) \o S_slash)
    /\ Len(f) > Len(cl_base_dir(config)) + 1

\* its path relative to the base directory
RelativePath(f) == SubSeq(f, Len(cl_base_dir(config)) + 2, Len(f))

\* the relative path, or what subsection handling may make of it
AllowedCandidates(f) ==
    {RelativePath(f)} \cup
        { SubSeq(RelativePath(f), Len(sdir) + 2, Len(RelativePath(f))) :
            sdir \in {d \in Range(section_dirs(config)) :
                          d # S_empty /\ StartsWith(RelativePath(f), d \o S_slash)} }

RECURSIVE ExactlyTheInside(_, _)
ExactlyTheInside(files, cands) ==
    IF files = << >> THEN cands = << >>
    ELSE IF InBaseDir(Head(files))
    THEN /\ cands # << >>
         /\ Head(cands) \in AllowedCandidates(Head(files))
         /\ ExactlyTheInside(Tail(files), Tail(cands))
    ELSE ExactlyTheInside(Tail(files), cands)

\* C5: the candidates are exactly the changed .rst files inside the base
\* directory, in order, each as its whole path relative to that directory;
\* a file outside it (a sibling directory whose name begins with the base
\* directory string) gives no candidate.
C5_ExactlyInside ==
    pc = "collected" => ExactlyTheInside(pr_files, possible_cl_files)

-----------------------------------------------------------------------------
(* run(): the inputs the environment and the hosting API hand it.          *)

EventNames == {S_push, S_pull_request, S_pull_request \o S_target}

\* names of the labels of the pull request (the hosting service gives no
\* label an empty name)
LabelLists == {<< >>, <<S_skip>>, <<S_other>>, <<S_other, S_skip>>}

\* [tool.<bot>.towncrier_changelog] tables
ChangelogTables ==
    { Opt("enabled", e) @@ Opt("changelog_skip_label", l) :
        e \in Optional({TRUE, FALSE}),
        l \in Optional({PyStr(S_empty), PyStr(S_skip)}) }

\* [tool.<bot>] tables: with the towncrier_changelog table, or without
BotTables == {EmptyDict} \cup {"towncrier_changelog" :> cl : cl \in ChangelogTables}

\* [tool.towncrier] tables of the base repository: a directory, with a
\* subsection, the defaults, a custom type, and a section entry with no path
RunTowncrierTables ==
    { Towncrier(Some(PyStr(S_changes)), Absent, Absent, Absent),
      Towncrier(Some(PyStr(S_changes)), Some(SubSection), Absent, Absent),
      Towncrier(Absent, Absent, Absent, Absent),
      Towncrier(Some(PyStr(S_changes)), Absent, Some(<<Type(S_x, "X")>>), Absent),
      Towncrier(Some(PyStr(S_changes)), Some(<<[name |-> S_sub]>>), Absent, Absent) }

RunTomls ==
    {EmptyDict} \cup
        { Toml(b, t) : b \in Optional(BotTables), t \in Optional(RunTowncrierTables) }

-----------------------------------------------------------------------------
(* run(): its tests, as the code writes them.                              *)

\* not event_name.startswith('pull_request') is false
IsPullRequest(name) == StartsWith(name, S_pull_request)

\* toml_cfg['tool'][bot_username]['towncrier_changelog'] raises no KeyError
HasBotSection(cfg) ==
    /\ Has(cfg, "tool")
    /\ Has(cfg["tool"], bot_username)
    /\ Has(cfg["tool"][bot_username], "towncrier_changelog")

cl_config(cfg) == cfg["tool"][bot_username]["towncrier_changelog"]

\* IsEnabled with the default the wrong way round
IsEnabled_DefaultTrue(cl) == Get(cl, "enabled", TRUE)

\* cl_config.get('enabled', False)
IsEnabled(cl) == Get(cl, "enabled", FALSE)

\* SkipRequested with the label never looked up
SkipRequested_Ignored(cl, labels) == FALSE

\* skip_label and skip_label in pr_labels
SkipRequested(cl, labels) ==
    LET skip_label == Get(cl, "changelog_skip_label", None)
    IN IF skip_label = None THEN FALSE
       ELSE skip_label.val # S_empty /\ skip_label.val \in Range(labels)

-----------------------------------------------------------------------------
(* run(): its steps.                                                       *)

Init ==
    /\ pc = "run"
    /\ event_name \in EventNames
    /\ toml_cfg = None /\ pr_labels = << >>
    /\ trace = << >> /\ exit_status = NoStatus
    /\ pr_num = 0 /\ idx = 0 /\ default_types = _default_types
    /\ IdleParse /\ IdleValidate /\ IdleCollect

\* sys.exit(status)
Exit(status, steps) ==
    /\ exit_status' = status
    /\ trace' = trace \o steps
    /\ pc' = "exited"
    /\ UNCHANGED <<basename, definitions, parts, filenames, pr_num, types, idx,
                   valid, pr_files, config, possible_cl_files, default_types,
                   toml_cfg, event_name, pr_labels>>

\* the test passes and run() goes on to the next one
Proceed(to, steps) ==
    /\ pc' = to
    /\ trace' = trace \o steps
    /\ UNCHANGED <<basename, definitions, parts, filenames, pr_num, types, idx,
                   valid, out, pr_files, config, possible_cl_files,
                   default_types, toml_cfg, event_name, pr_labels, exit_status>>

\* lines 191-194
RunNoOp ==
    /\ pc = "run" /\ ~IsPullRequest(event_name)
    /\ Exit(0, <<"event_name">>)
    /\ UNCHANGED out

\* lines 196-214: the event payload is read (its labels and its number are
\* used further down) and pyproject.toml is fetched from the base repository
RunLoad ==
    /\ pc = "run" /\ IsPullRequest(event_name)
    /\ \E labels \in LabelLists, number \in PrNumbers, cfg \in RunTomls :
           /\ pr_labels' = labels
           /\ pr_num' = number
           /\ toml_cfg' = cfg
    /\ trace' = trace \o <<"event_name", "Github", "event_payload", "get_repo",
                            "get_contents">>
    /\ pc' = "bot_section"
    /\ UNCHANGED <<basename, definitions, parts, filenames, types, idx, valid,
                   out, pr_files, config, possible_cl_files, default_types,
                   event_name, exit_status>>

\* lines 216-220
RunMissingBotSection ==
    /\ pc = "bot_section" /\ ~HasBotSection(toml_cfg)
    /\ Exit(1, <<"bot_section">>)
    /\ UNCHANGED out

RunBotSection ==
    /\ pc = "bot_section" /\ HasBotSection(toml_cfg)
    /\ Proceed("enabled", <<"bot_section">>)

\* lines 222-229
RunDisabled ==
    /\ pc = "enabled" /\ ~IsEnabled(cl_config(toml_cfg))
    /\ Exit(0, <<"enabled">>)
    /\ UNCHANGED out

RunEnabled ==
    /\ pc = "enabled" /\ IsEnabled(cl_config(toml_cfg))
    /\ Proceed("skip_label", <<"enabled">>)

\* lines 231-238
RunSkip ==
    /\ pc = "skip_label" /\ SkipRequested(cl_config(toml_cfg), pr_labels)
    /\ Exit(0, <<"skip_label">>)
    /\ UNCHANGED out

RunNoSkip ==
    /\ pc = "skip_label" /\ ~SkipRequested(cl_config(toml_cfg), pr_labels)
    /\ Proceed("parse_toml", <<"skip_label">>)

\* lines 241-245: the changed files are fetched and handed to
\* collect_possible_changelog_files
RunFetchFiles ==
    /\ pc = "files"
    /\ pr_files' \in SeqsOf(RepoFilePool, 0, MaxFiles)
    /\ possible_cl_files' = << >>
    /\ idx' = 1
    /\ trace' = trace \o <<"get_pull", "get_files", "collect">>
    /\ pc' = "collect"
    /\ UNCHANGED <<basename, definitions, parts, filenames, pr_num, types,
                   valid, out, config, default_types, toml_cfg, event_name,
                   pr_labels, exit_status>>

\* lines 245-253: the candidates are handed to validate_cl_candidates
RunCallValidate ==
    /\ pc = "collected"
    /\ filenames' = possible_cl_files
    /\ types' = Keys(config.types)
    /\ trace' = Append(trace, "validate")
    /\ pc' = "validate"
    /\ UNCHANGED <<basename, definitions, parts, pr_num, idx, valid, out,
                   pr_files, config, possible_cl_files, default_types,
                   toml_cfg, event_name, pr_labels, exit_status>>

\* lines 255-257
RunInvalid ==
    /\ pc = "validated" /\ ~valid
    /\ out' = Append(out, [kind |-> "INCORRECT"])
    /\ Exit(1, << >>)

\* lines 259-260: run() returns and the interpreter ends with status 0
RunSuccess ==
    /\ pc = "validated" /\ valid
    /\ out' = Append(out, [kind |-> "SUCCESS"])
    /\ Exit(0, << >>)

\* lines 263-264: an exception nobody catches leaves run(); the interpreter
\* prints the traceback and ends with status 1
RunUncaught ==
    /\ pc = "raised"
    /\ Exit(1, << >>)
    /\ UNCHANGED out

Next ==
    \/ RunNoOp
    \/ RunLoad
    \/ RunMissingBotSection
    \/ RunBotSection
    \/ RunDisabled
    \/ RunEnabled
    \/ RunSkip
    \/ RunNoSkip
    \/ ParseTomlReturn
    \/ ParseTomlRaise
    \/ RunFetchFiles
    \/ CollectSkip
    \/ CollectKeep
    \/ CollectReturn
    \/ RunCallValidate
    \/ ValidateStart
    \/ ValidateSubdir
    \/ ValidateRaise
    \/ ValidateReject
    \/ ValidateAccept
    \/ ValidateReturn
    \/ RunInvalid
    \/ RunSuccess
    \/ RunUncaught

Spec == Init /\ [][Next]_vars

-----------------------------------------------------------------------------
(* Properties of run().                                                    *)

\* the event is a pull-request event
PullRequestEvent == event_name \in {S_pull_request, S_pull_request \o S_target}

\* pyproject.toml has the [tool.<bot>.towncrier_changelog] table
BotConfigured ==
    /\ "tool" \in DOMAIN toml_cfg
    /\ "astropy-bot" \in DOMAIN toml_cfg["tool"]
    /\ "towncrier_changelog" \in DOMAIN toml_cfg["tool"]["astropy-bot"]

BotTable == toml_cfg["tool"]["astropy-bot"]["towncrier_changelog"]

\* the plugin is disabled: enabled is absent or false
Disabled ==
    IF BotConfigured
    THEN IF "enabled" \in DOMAIN BotTable THEN BotTable["enabled"] = FALSE ELSE TRUE
    ELSE FALSE

\* the configured skip label is among the labels of the pull request
SkipLabelSet ==
    IF BotConfigured
    THEN IF "changelog_skip_label" \in DOMAIN BotTable
         THEN \E k \in 1..Len(pr_labels) :
                  pr_labels[k] = BotTable["changelog_skip_label"].val
         ELSE FALSE
    ELSE FALSE

\* validation of the collected candidates returned true
ValidatedTrue == "validate_return" \in Range(trace) /\ valid

\* C6: the process ends with status 0 exactly when the event is no
\* pull-request event, or the plugin is disabled, or the skip label is set,
\* or validation returned true; in every other case it ends with status 1.
C6_ExitStatus ==
    pc = "exited" =>
        /\ exit_status \in {0, 1}
        /\ exit_status = 0 <=>
               IF ~PullRequestEvent THEN TRUE
               ELSE Disabled \/ SkipLabelSet \/ ValidatedTrue

\* an enabled run with no skip label whose one fragment was accepted
C6_Witness ==
    /\ pc = "exited" /\ exit_status = 0
    /\ PullRequestEvent /\ ~Disabled /\ ~SkipLabelSet /\ ValidatedTrue

StepOrder ==
    <<"event_name", "Github", "event_payload", "get_repo", "get_contents",
      "bot_section", "enabled", "skip_label", "parse_toml", "get_pull",
      "get_files", "collect", "validate", "validate_return">>

\* C10: the steps run in the order of StepOrder; a run on another event ends
\* after the event-name check alone; [tool.towncrier] is examined (and so the
\* files fetched, collected and validated) only in pull-request runs with the
\* bot section, enabled and no skip label; a disabled or skip-labelled run
\* ends with status 0 without examining [tool.towncrier].
C10_StepOrder ==
    /\ Len(trace) <= Len(StepOrder) /\ trace = SubSeq(StepOrder, 1, Len(trace))
    /\ (pc = "exited" /\ ~PullRequestEvent) => trace = <<"event_name">>
    /\ "parse_toml" \in Range(trace) =>
           PullRequestEvent /\ BotConfigured /\ ~Disabled /\ ~SkipLabelSet
    /\ (pc = "exited" /\ PullRequestEvent /\ (Disabled \/ SkipLabelSet)) =>
           exit_status = 0 /\ "parse_toml" \notin Range(trace)

\* a skip-labelled run of a repository with no [tool.towncrier] table
C10_Witness ==
    /\ pc = "exited" /\ exit_status = 0
    /\ PullRequestEvent /\ ~Disabled /\ SkipLabelSet
    /\ ~HasTowncrierSection(toml_cfg)
    /\ trace = SubSeq(StepOrder, 1, 8)

====
